---- MODULE Spec2Model ----
(***************************************************************************)
(* Vessa request threat-analysis and blocking pipeline.                    *)
(*                                                                         *)
(*   SpecWAF    WAFEngine.analyze_request with its decision cache, the     *)
(*              background tasks it schedules and the incident sink        *)
(*   SpecRL     RateLimiter.is_rate_limited, one check at a time           *)
(*   SpecRLConc RateLimiter.is_rate_limited run by several service         *)
(*              instances against the shared Redis sorted set              *)
(*   SpecAuth   AuthRateLimitMiddleware.dispatch (attempts and lockouts)   *)
(*   SpecCombine IncidentService._combine_analysis_results on its own      *)
(*   SpecService IncidentService static analysis and the engine's fast      *)
(*              path, over payloads described by the families they match   *)
(*   SpecLimits RateLimitMiddleware.dispatch with per-key custom limits    *)
(*   SpecConfig WAFConfig built from given thresholds                      *)
(*   SpecWorkers AuthRateLimitMiddleware.dispatch in two gunicorn workers  *)
(*   SpecIntel  IncidentService.analyze_request with the reputation        *)
(*              lookups of its ThreatIntelligenceService                   *)
(*                                                                         *)
(* Scores are percentages (0..100) of the code's floats in [0,1].          *)
(***************************************************************************)
EXTENDS Integers, Sequences, FiniteSets, TLC

VARIABLES
    now,        \* the clock read by time.time() / datetime.utcnow()
    cfg,        \* WAFEngine.config and the engine's construction arguments
    cache,      \* WAFEngine.cache, in dict insertion order
    stats,      \* WAFEngine.stats
    last,       \* the latest analyze_request call and what it returned
    prev,       \* the call before it
    tasks,      \* background tasks created with asyncio.create_task
    sink,       \* MaliciousRequest records written by the incident service
    zset,       \* the Redis sorted set rate_limit:<api_key>:<endpoint>
    zexpire,    \* the time at which Redis expires that key
    rl,         \* each service instance's position in is_rate_limited
    rlLast,     \* the latest is_rate_limited result
    rlHist,     \* per tick, the checks made and the checks admitted
    attempts,   \* AuthRateLimitMiddleware.attempts: ip -> [(timestamp, path)]
    lockouts,   \* AuthRateLimitMiddleware.lockouts: ip -> lockout_until
    inflight,   \* auth requests handed to call_next and not yet answered
    aseq,       \* requests that reached AuthRateLimitMiddleware.dispatch
    aev,        \* the latest step of AuthRateLimitMiddleware.dispatch
    comb,       \* one call of IncidentService._combine_analysis_results
    svc,        \* an IncidentService analysing requests on its own
    lim,        \* RateLimitMiddleware with per-key custom limits in Redis
    conf,       \* a WAFConfig built from given thresholds, and its latest use
    rep         \* IncidentService.analyze_request and its reputation lookups

wafVars == <<cfg, cache, stats, last, prev, tasks, sink>>

rlVars == <<zset, zexpire, rl, rlLast, rlHist>>

authVars == <<attempts, lockouts, inflight, aseq, aev>>
pureVars == <<comb, svc, lim, conf, rep>>

vars == <<now, cfg, cache, stats, last, prev, tasks, sink,
          zset, zexpire, rl, rlLast, rlHist,
          attempts, lockouts, inflight, aseq, aev, comb, svc, lim, conf, rep>>

----------------------------------------------------------------------------
(* Bounds of the model *)

MaxCalls == 2        \* analyze_request calls in one behaviour
MaxTime == 2         \* clock ticks in one behaviour
CacheTTL == 2        \* AnalysisConfig.cache_ttl, in ticks
MaxCacheSize == 1    \* the cache size above which _add_to_cache evicts
EvictCount == 1      \* how many of the oldest entries an eviction removes
MaxRLTime == 4       \* clock ticks in one rate-limiter behaviour
MaxChecks == 4       \* is_rate_limited calls in one behaviour
RateLimit == 2       \* Settings.rate_limit_requests, scaled down
RateWindow == 3      \* Settings.rate_limit_period, in ticks
MaxAuthTime == 6     \* clock ticks in one auth-limiter behaviour
MaxArrivals == 5     \* requests reaching the auth limiter in one behaviour
AttemptsPerMinute == 2   \* MAX_LOGIN_ATTEMPTS_PER_MINUTE, scaled down
AttemptsPerHour == 3     \* MAX_LOGIN_ATTEMPTS_PER_HOUR, scaled down
AttemptsPerDay == 4      \* MAX_LOGIN_ATTEMPTS_PER_DAY, scaled down
MinuteTicks == 1         \* 60 s, in ticks
HourTicks == 5           \* 3600 s, in ticks
DayTicks == 7            \* 86400 s, in ticks
LockoutTicks == 2        \* LOCKOUT_DURATION_MINUTES * 60 s, in ticks

----------------------------------------------------------------------------
(* Program constants *)

BlockThreshold == 75
ChallengeThreshold == 50
LogThreshold == 25

ConfidentScore == 75     \* the 0.75 of the incident service
IncidentScore == 50      \* the 0.5 above which an incident is created

SqlScore == 85
XssScore == 80
CmdScore == 90
PathScore == 85
NoSqlScore == 80
ProxyScore == 10
AgentScore == 20
AdminScore == 20
TraversalScore == 85

MLRaise == 0 - 1         \* the classifier raised instead of answering

----------------------------------------------------------------------------
(* Requests *)

Methods == {"GET"}
\* a path is the sequence of the pieces it is written as
PathHealthz == <<"/health", "z">>
PathProducts == <<"/api", "/products">>
PathAdmin == <<"/api", "/admin">>
PathTraversal == <<"/api", "/files", "/../../../etc/passwd">>
Paths == {PathHealthz, PathProducts, PathAdmin, PathTraversal}
Queries == {"none"}
Bodies == {"none"}
Hdrs == {"none", "xff_nmap"}
IPs == {"10.0.0.1", "10.0.0.2", "10.0.0.3", "10.0.0.4"}

ExcludedPaths == {<<"/health">>, <<"/metrics">>, <<"/api", "/v1", "/health">>}
Whitelist == {"10.0.0.2", "10.0.0.4"}
Blacklist == {"10.0.0.3", "10.0.0.4"}

Requests ==
    [method : Methods, path : Paths, query : Queries, body : Bodies,
     headers : Hdrs, client_ip : IPs]

NoRequest ==
    [method |-> "none", path |-> <<>>, query |-> "none", body |-> "none",
     headers |-> "none", client_ip |-> "none"]

MLScores == {0, 60, 90}
MLOutcomes == MLScores \cup {MLRaise}

Min(a, b) == IF a <= b THEN a ELSE b
Max(a, b) == IF a >= b THEN a ELSE b

----------------------------------------------------------------------------
(* WAFConfig *)

\* str.startswith
StartsWith(path, prefix) ==
    Len(prefix) <= Len(path) /\ SubSeq(path, 1, Len(prefix)) = prefix

IsPathExcludedExact(path) == path \in ExcludedPaths
IsPathExcluded(path) == \E excluded \in ExcludedPaths : StartsWith(path, excluded)

ThreatThresholds(block, challenge, log) ==
    [block |-> block, challenge |-> challenge, log |-> log]

DefaultThresholds == ThreatThresholds(BlockThreshold, ChallengeThreshold, LogThreshold)

\* Field(ge=0.0, le=1.0), field by field
ThresholdsValid(th) ==
    /\ 0 <= th.block /\ th.block <= 100
    /\ 0 <= th.challenge /\ th.challenge <= 100
    /\ 0 <= th.log /\ th.log <= 100

GetActionWith(th, score) ==
    IF score >= th.block THEN "block"
    ELSE IF score >= th.challenge THEN "challenge"
    ELSE IF score >= th.log THEN "log"
    ELSE "allow"

GetActionForScore(score) == GetActionWith(DefaultThresholds, score)

\* thresholds a WAFConfig is asked to be built with, some out of range
ThresholdInputs == {0 - 25, 0, 25, 50, 75, 100, 125}
ScoreInputs == {0, 25, 50, 75, 100}

NoConfig ==
    [status |-> "none", thresholds |-> DefaultThresholds, score |-> 0 - 1, action |-> "none"]

\* WAFConfig(thresholds=ThreatThresholds(...)): pydantic raises ValidationError
\* for a field out of range
BuildConfig(block, challenge, log) ==
    LET th == ThreatThresholds(block, challenge, log)
    IN  /\ conf.status = "none"
        /\ conf' = [conf EXCEPT !.status = IF ThresholdsValid(th) THEN "built" ELSE "rejected",
                                 !.thresholds = IF ThresholdsValid(th) THEN th ELSE @]
        /\ UNCHANGED <<now, wafVars, rlVars, authVars, comb, svc, lim, rep>>

\* get_action_for_score on the built config
ClassifyScore(score) ==
    /\ conf.status = "built"
    /\ conf.score = 0 - 1
    /\ conf' = [conf EXCEPT !.score = score,
                             !.action = GetActionWith(conf.thresholds, score)]
    /\ UNCHANGED <<now, wafVars, rlVars, authVars, comb, svc, lim, rep>>

Integrations == {"asgi", "proxy", "wsgi"}
Modes == {"block", "log", "simulate"}

\* the engines under study: ReverseProxyWAF and WSGIWAFMiddleware build
\* theirs without a db session
Configs ==
    { c \in [static_enabled : BOOLEAN, ml_enabled : BOOLEAN, ml_async : BOOLEAN,
             cache_enabled : BOOLEAN, db : BOOLEAN, ml_loaded : BOOLEAN,
             integration : Integrations, mode : Modes] :
        /\ (~c.ml_enabled) => c.ml_async
        /\ c.ml_loaded <=> (c.db /\ ~c.ml_async)
        /\ (~c.static_enabled) => (c.db /\ c.ml_enabled /\ ~c.ml_async)
        /\ (~c.cache_enabled) => (c.static_enabled /\ c.ml_enabled /\ c.db)
        /\ c.integration # "asgi"
               => (~c.db /\ c.static_enabled /\ c.ml_enabled /\ c.cache_enabled
                   /\ c.mode = "block")
        /\ c.mode # "block"
               => (c.db /\ c.static_enabled /\ c.ml_enabled /\ c.cache_enabled) }

----------------------------------------------------------------------------
(* Static analyzers of the incident service *)

HasXff(h) == h = "xff_nmap"
HasSuspiciousAgent(h) == h = "xff_nmap"
HasAdmin(path) == path = PathAdmin
Families ==
    {"sql_injection", "xss", "command_injection", "path_traversal", "nosql_injection"}

\* the attack families whose patterns the path or the body of a request match
RequestHits(req) == IF req.path = PathTraversal THEN {"path_traversal"} ELSE {}
MatchesPath(req) == "path_traversal" \in RequestHits(req)

\* hits: the families with a pattern matching combined_input
BasicRawScore(hits, h, admin) ==
      (IF "sql_injection" \in hits THEN SqlScore ELSE 0)
    + (IF "xss" \in hits THEN XssScore ELSE 0)
    + (IF "command_injection" \in hits THEN CmdScore ELSE 0)
    + (IF "path_traversal" \in hits THEN PathScore ELSE 0)
    + (IF "nosql_injection" \in hits THEN NoSqlScore ELSE 0)
    + (IF HasXff(h) THEN ProxyScore ELSE 0)
    + (IF HasSuspiciousAgent(h) THEN AgentScore ELSE 0)
    + (IF admin THEN AdminScore ELSE 0)

\* threat_type is assigned by every block that matches: the last one stays
BasicThreatType(hits, h, admin) ==
    IF BasicRawScore(hits, h, admin) = 0 THEN "safe"
    ELSE IF admin THEN "suspicious"
    ELSE IF "nosql_injection" \in hits THEN "nosql_injection"
    ELSE IF "path_traversal" \in hits THEN "path_traversal"
    ELSE IF "command_injection" \in hits THEN "command_injection"
    ELSE IF "xss" \in hits THEN "xss"
    ELSE IF "sql_injection" \in hits THEN "sql_injection"
    ELSE "safe"

BasicAnalysis(hits, h, admin) ==
    [threat_score |-> Min(BasicRawScore(hits, h, admin), 100),
     threat_type |-> BasicThreatType(hits, h, admin)]

PerformBasicStaticAnalysis(req) ==
    BasicAnalysis(RequestHits(req), req.headers, HasAdmin(req.path))

TraversalHits(str) ==
    IF str = PathTraversal THEN 3 ELSE 0

PerformStaticAnalysis(req) ==
    LET raw == TraversalScore * (TraversalHits(req.path) + TraversalHits(req.path))
    IN  [threat_score |-> Min(raw, 100),
         threat_type |-> IF raw > 0 THEN "path_traversal" ELSE "safe"]

PerformMLAnalysis(ml) ==
    [threat_score |-> ml, threat_type |-> IF ml >= 50 THEN "sqli" ELSE "benign"]

CombineAnalysisResults(st, mlr) ==
    IF st.threat_score >= ConfidentScore THEN st
    ELSE IF mlr.threat_score >= ConfidentScore THEN mlr
    ELSE LET score == Max(st.threat_score, mlr.threat_score)
         IN  [threat_score |-> score,
              threat_type |->
                  IF score >= IncidentScore
                  THEN (IF mlr.threat_score > st.threat_score
                        THEN mlr.threat_type ELSE st.threat_type)
                  ELSE "safe"]

----------------------------------------------------------------------------
(* WAFDecision and its constructors *)

\* _generate_request_id: the first 16 hex digits of sha256 of the clock reading;
\* the digest is a function of the reading alone
GenerateRequestId(t) == <<"sha256", t>>

\* response_body is a dict: a record here, <<>> for the empty dict
AllowDecision ==
    [action |-> "allow", threat_score |-> 0, threat_type |-> "safe",
     should_block |-> FALSE, response_code |-> 200, response_body |-> <<>>,
     cache_hit |-> FALSE]

BlockDecision(score, type) ==
    [action |-> "block", threat_score |-> score, threat_type |-> type,
     should_block |-> TRUE, response_code |-> 403,
     response_body |-> [error |-> "Forbidden", message |-> "Request blocked by WAF",
                        threat_type |-> type, request_id |-> GenerateRequestId(now)],
     cache_hit |-> FALSE]

ChallengeDecisionBlocking(score, type) ==
    [action |-> "challenge", threat_score |-> score, threat_type |-> type,
     should_block |-> TRUE, response_code |-> 429,
     response_body |-> [error |-> "Too Many Requests",
                        message |-> "Please complete the security challenge",
                        challenge_url |-> "/challenge",
                        request_id |-> GenerateRequestId(now)],
     cache_hit |-> FALSE]
ChallengeDecision(score, type) ==
    [action |-> "challenge", threat_score |-> score, threat_type |-> type,
     should_block |-> FALSE, response_code |-> 429,
     response_body |-> [error |-> "Too Many Requests",
                        message |-> "Please complete the security challenge",
                        challenge_url |-> "/challenge",
                        request_id |-> GenerateRequestId(now)],
     cache_hit |-> FALSE]

NoDecision ==
    [action |-> "none", threat_score |-> 0, threat_type |-> "none",
     should_block |-> FALSE, response_code |-> 0, response_body |-> <<>>,
     cache_hit |-> FALSE]

CreateDecisionFromAnalysis(result) ==
    LET action == GetActionForScore(result.threat_score)
    IN  IF action = "block" THEN BlockDecision(result.threat_score, result.threat_type)
        ELSE IF action = "challenge"
             THEN ChallengeDecision(result.threat_score, result.threat_type)
        ELSE AllowDecision

----------------------------------------------------------------------------
(* The decision cache: a dict, kept here in insertion order *)

StrOrEmpty(x) == IF x = "none" THEN "" ELSE x

GenerateCacheKey(req) ==
    <<req.method, req.path, StrOrEmpty(req.query), StrOrEmpty(req.body)>>

CacheIndex(c, key) ==
    IF \E i \in 1..Len(c) : c[i].key = key
    THEN CHOOSE i \in 1..Len(c) : c[i].key = key
    ELSE 0

RemoveAt(c, i) == [j \in 1..(Len(c) - 1) |-> IF j < i THEN c[j] ELSE c[j + 1]]

\* _get_from_cache: the entry's index when it is fresh, 0 otherwise
CacheFreshAtTtl(c, key, t) ==
    LET i == CacheIndex(c, key)
    IN  IF i # 0 /\ t - c[i].ts <= CacheTTL THEN i ELSE 0
CacheFresh(c, key, t) ==
    LET i == CacheIndex(c, key)
    IN  IF i # 0 /\ t - c[i].ts < CacheTTL THEN i ELSE 0

\* _get_from_cache: the cache it leaves (an expired entry is deleted)
CacheAfterGet(c, key, t) ==
    LET i == CacheIndex(c, key)
    IN  IF i # 0 /\ ~(t - c[i].ts < CacheTTL) THEN RemoveAt(c, i) ELSE c

\* the position sorted() gives entry i: entries with a smaller timestamp come
\* first, equal timestamps keep the dict order
SortRank(c, i) ==
    Cardinality({j \in 1..Len(c) : c[j].ts < c[i].ts \/ (c[j].ts = c[i].ts /\ j < i)}) + 1

EvictNewest(c) ==
    LET keep == {i \in 1..Len(c) : SortRank(c, i) <= Len(c) - EvictCount}
        pos(i) == Cardinality({j \in keep : j <= i})
    IN  [n \in 1..Cardinality(keep) |-> c[CHOOSE i \in keep : pos(i) = n]]
EvictOldest(c) ==
    LET keep == {i \in 1..Len(c) : SortRank(c, i) > EvictCount}
        pos(i) == Cardinality({j \in keep : j <= i})
    IN  [n \in 1..Cardinality(keep) |-> c[CHOOSE i \in keep : pos(i) = n]]

AddToCache(c, key, decision, t) ==
    LET i == CacheIndex(c, key)
        entry == [key |-> key, dec |-> decision, ts |-> t]
        c1 == IF i # 0 THEN [c EXCEPT ![i] = entry] ELSE Append(c, entry)
    IN  IF Len(c1) > MaxCacheSize THEN EvictOldest(c1) ELSE c1

----------------------------------------------------------------------------
(* IncidentService.analyze_raw_request, as the engine's incident service runs it *)

StaticFlag == cfg.static_enabled
DynamicFlag == (~cfg.ml_async) /\ cfg.ml_loaded

SafeResult == [threat_score |-> 0, threat_type |-> "safe"]

\* [raised, result, record]: record says whether _create_analysis_result ran
AnalyzeRawRequest(req, ml) ==
    LET st == PerformStaticAnalysis(req)
        mlr == PerformMLAnalysis(ml)
    IN  IF StaticFlag /\ ~DynamicFlag /\ st.threat_score >= ConfidentScore
        THEN [raised |-> FALSE, result |-> st, record |-> TRUE]
        ELSE IF DynamicFlag /\ ml = MLRaise
        THEN [raised |-> TRUE, result |-> SafeResult, record |-> FALSE]
        ELSE IF DynamicFlag /\ ~StaticFlag
        THEN [raised |-> FALSE, result |-> mlr, record |-> TRUE]
        ELSE IF DynamicFlag /\ StaticFlag
        THEN [raised |-> FALSE, result |-> CombineAnalysisResults(st, mlr), record |-> TRUE]
        ELSE [raised |-> FALSE, result |-> SafeResult, record |-> FALSE]

\* _create_analysis_result: a MaliciousRequest row for every score above 0
SinkAfter(s, req, out) ==
    IF out.record /\ out.result.threat_score > 0
    THEN s \cup {[path |-> req.path, client_ip |-> req.client_ip,
                  threat_score |-> out.result.threat_score,
                  threat_type |-> out.result.threat_type,
                  incident |-> out.result.threat_score >= IncidentScore]}
    ELSE s

FastStaticAnalysis(req) ==
    IF cfg.db THEN PerformBasicStaticAnalysis(req) ELSE SafeResult

CheckIpLists(ip) ==
    IF ip \in Whitelist THEN "allow"
    ELSE IF ip \in Blacklist THEN "block"
    ELSE "none"

----------------------------------------------------------------------------
(* WAFEngine.analyze_request *)

NoCall ==
    [req |-> NoRequest, outcome |-> "none", how |-> "none", dec |-> NoDecision,
     s |-> 0, fast |-> 0, ml_raised |-> FALSE, time |-> 0]

Call(req, outcome, how, dec, s, fast, mlRaised) ==
    [req |-> req, outcome |-> outcome, how |-> how, dec |-> dec,
     s |-> s, fast |-> fast, ml_raised |-> mlRaised, time |-> now]

CountDecision(st, dec) ==
    IF dec.action = "block"
    THEN [st EXCEPT !.blocked_requests = @ + 1]
    ELSE IF dec.action = "challenge"
    THEN [st EXCEPT !.challenged_requests = @ + 1]
    ELSE [st EXCEPT !.allowed_requests = @ + 1]

\* the path is excluded: ALLOW at once
ReturnExcluded(req, st) ==
    /\ IsPathExcluded(req.path)
    /\ last' = Call(req, "returned", "excluded", AllowDecision, 0, 0, FALSE)
    /\ stats' = st
    /\ UNCHANGED <<cache, tasks, sink>>

\* a fresh cache entry is returned, marked as a hit
ReturnCached(req, st) ==
    LET key == GenerateCacheKey(req)
        i == CacheFresh(cache, key, now)
    IN  /\ ~IsPathExcluded(req.path)
        /\ cfg.cache_enabled
        /\ i # 0
        /\ cache' = [cache EXCEPT ![i].dec.cache_hit = TRUE]
        /\ last' = Call(req, "returned", "cache", cache'[i].dec,
                        cache[i].dec.threat_score, 0, FALSE)
        /\ stats' = [st EXCEPT !.cache_hits = @ + 1]
        /\ UNCHANGED <<tasks, sink>>

\* the cache after the lookup of analyze_request missed
CacheAfterMiss(req) ==
    IF cfg.cache_enabled THEN CacheAfterGet(cache, GenerateCacheKey(req), now) ELSE cache

CacheMiss(req) ==
    /\ ~IsPathExcluded(req.path)
    /\ ~(cfg.cache_enabled /\ CacheFresh(cache, GenerateCacheKey(req), now) # 0)

\* the client IP is on a list
ReturnIpList(req, st) ==
    LET ipAction == CheckIpLists(req.client_ip)
        dec == IF ipAction = "block" THEN BlockDecision(100, "blacklisted_ip")
               ELSE AllowDecision
    IN  /\ CacheMiss(req)
        /\ ipAction # "none"
        /\ cache' = CacheAfterMiss(req)
        /\ last' = Call(req, "returned", IF ipAction = "block" THEN "ip_block" ELSE "ip_allow",
                        dec, 0, 0, FALSE)
        /\ stats' = CountDecision(st, dec)
        /\ UNCHANGED <<tasks, sink>>

Analyzed(req) == CacheMiss(req) /\ CheckIpLists(req.client_ip) = "none"

CacheStoreSkipped(req, dec) == CacheAfterMiss(req)
CacheStore(req, dec) ==
    IF cfg.cache_enabled
    THEN AddToCache(CacheAfterMiss(req), GenerateCacheKey(req), dec, now)
    ELSE cache

\* the fast static score reaches the block threshold
ReturnStaticBlock(req, st) ==
    LET static == FastStaticAnalysis(req)
        dec == CreateDecisionFromAnalysis(static)
    IN  /\ Analyzed(req)
        /\ cfg.static_enabled
        /\ static.threat_score >= BlockThreshold
        /\ cache' = CacheStore(req, dec)
        /\ tasks' = IF cfg.db
                    THEN tasks \cup {[kind |-> "log_incident", req |-> req,
                                      score |-> static.threat_score]}
                    ELSE tasks
        /\ last' = Call(req, "returned", "static_block", dec,
                        static.threat_score, static.threat_score, FALSE)
        /\ stats' = CountDecision(st, dec)
        /\ UNCHANGED sink

NotStaticBlock(req) ==
    /\ Analyzed(req)
    /\ ~(cfg.static_enabled /\ FastStaticAnalysis(req).threat_score >= BlockThreshold)

FastResult(req) ==
    IF cfg.static_enabled THEN FastStaticAnalysis(req)
    ELSE [threat_score |-> 0, threat_type |-> "unknown"]

\* asynchronous ML: decide on the fast result, leave ML to a background task
ReturnAsync(req, st) ==
    LET static == FastResult(req)
        dec == CreateDecisionFromAnalysis(static)
    IN  /\ NotStaticBlock(req)
        /\ cfg.ml_enabled /\ cfg.ml_async
        /\ cache' = CacheAfterMiss(req)
        /\ tasks' = tasks \cup {[kind |-> "async_ml", req |-> req, score |-> 0]}
        /\ last' = Call(req, "returned", "async", dec,
                        static.threat_score, static.threat_score, FALSE)
        /\ stats' = CountDecision(st, dec)
        /\ UNCHANGED sink

\* _ml_analysis on the request path
MlAnalysis(req, ml) ==
    IF cfg.db THEN AnalyzeRawRequest(req, ml)
    ELSE [raised |-> FALSE, result |-> SafeResult, record |-> FALSE]

\* synchronous ML: decide on what _ml_analysis returns
ReturnSync(req, ml, st) ==
    LET out == MlAnalysis(req, ml)
        dec == CreateDecisionFromAnalysis(out.result)
    IN  /\ NotStaticBlock(req)
        /\ cfg.ml_enabled /\ ~cfg.ml_async
        /\ ~out.raised
        /\ cache' = CacheStore(req, dec)
        /\ sink' = IF cfg.db THEN SinkAfter(sink, req, out) ELSE sink
        /\ last' = Call(req, "returned", "sync", dec,
                        out.result.threat_score, FastResult(req).threat_score, FALSE)
        /\ stats' = CountDecision(st, dec)
        /\ UNCHANGED tasks

\* synchronous ML: the classifier raises and nothing catches it
RaiseSync(req, ml, st) ==
    LET out == MlAnalysis(req, ml)
    IN  /\ NotStaticBlock(req)
        /\ cfg.ml_enabled /\ ~cfg.ml_async
        /\ out.raised
        /\ cache' = CacheAfterMiss(req)
        /\ last' = Call(req, "raised", "sync", NoDecision,
                        0, FastResult(req).threat_score, TRUE)
        /\ stats' = st
        /\ UNCHANGED <<tasks, sink>>

\* no ML configured: default allow
ReturnDefault(req, st) ==
    /\ NotStaticBlock(req)
    /\ ~cfg.ml_enabled
    /\ cache' = CacheAfterMiss(req)
    /\ last' = Call(req, "returned", "default", AllowDecision,
                    FastResult(req).threat_score, FastResult(req).threat_score, FALSE)
    /\ stats' = CountDecision(st, AllowDecision)
    /\ UNCHANGED <<tasks, sink>>

AnalyzeRequest(req, ml) ==
    LET st == [stats EXCEPT !.total_requests = @ + 1]
    IN  /\ stats.total_requests < MaxCalls
        /\ prev' = last
        /\ UNCHANGED <<now, cfg, rlVars, authVars, pureVars>>
        /\ \/ ReturnExcluded(req, st)
           \/ ReturnCached(req, st)
           \/ ReturnIpList(req, st)
           \/ ReturnStaticBlock(req, st)
           \/ ReturnAsync(req, st)
           \/ ReturnSync(req, ml, st)
           \/ RaiseSync(req, ml, st)
           \/ ReturnDefault(req, st)

\* a background task runs: _log_incident or _async_ml_analysis, both of which
\* catch what analyze_raw_request raises
RunTaskUpdatingCache(t, ml) ==
    LET runs == cfg.db /\ (t.kind = "async_ml" \/ t.score >= LogThreshold)
        out == AnalyzeRawRequest(t.req, ml)
    IN  /\ t \in tasks
        /\ tasks' = tasks \ {t}
        /\ sink' = IF runs /\ ~out.raised THEN SinkAfter(sink, t.req, out) ELSE sink
        /\ cache' = IF runs /\ ~out.raised /\ cfg.cache_enabled
                    THEN AddToCache(cache, GenerateCacheKey(t.req),
                                    CreateDecisionFromAnalysis(out.result), now)
                    ELSE cache
        /\ UNCHANGED <<now, cfg, stats, last, prev, rlVars, authVars, pureVars>>
RunTask(t, ml) ==
    LET runs == cfg.db /\ (t.kind = "async_ml" \/ t.score >= LogThreshold)
        out == AnalyzeRawRequest(t.req, ml)
    IN  /\ t \in tasks
        /\ tasks' = tasks \ {t}
        /\ sink' = IF runs /\ ~out.raised THEN SinkAfter(sink, t.req, out) ELSE sink
        /\ UNCHANGED <<now, cfg, cache, stats, last, prev, rlVars, authVars, pureVars>>

Tick ==
    /\ now < MaxTime
    /\ now' = now + 1
    /\ UNCHANGED <<wafVars, rlVars, authVars, pureVars>>

DefaultConfig ==
    [static_enabled |-> TRUE, ml_enabled |-> TRUE, ml_async |-> TRUE,
     cache_enabled |-> TRUE, db |-> TRUE, ml_loaded |-> FALSE,
     integration |-> "asgi", mode |-> "block"]

\* a freshly constructed WAFEngine
EngineInit(configs) ==
    /\ cfg \in configs
    /\ cache = <<>>
    /\ stats = [total_requests |-> 0, blocked_requests |-> 0, allowed_requests |-> 0,
                challenged_requests |-> 0, cache_hits |-> 0]
    /\ last = NoCall
    /\ prev = NoCall
    /\ tasks = {}
    /\ sink = {}

----------------------------------------------------------------------------
(* IncidentService._combine_analysis_results, called on its own *)

CombScores == {0, 25, 50, 60, 75, 80, 95, 100}

StaticResults ==
    {[threat_score |-> sc, threat_type |-> IF sc > 0 THEN "path_traversal" ELSE "safe"] :
        sc \in CombScores}

\* the classifier's final_label can be any threat type
MLResults ==
    {PerformMLAnalysis(sc) : sc \in CombScores}
        \cup {[threat_score |-> sc, threat_type |-> "command_injection"] :
                 sc \in CombScores \ {0}}

NoResult == [threat_score |-> 0 - 1, threat_type |-> "none"]

\* the findings lists the two analyzers hand to the combiner: the static one
\* holds the path-traversal finding when it scored, the classifier's always
\* holds its one "ML model detected ..." line
FindingsOf(st, mlr) ==
    [static |-> IF st.threat_score > 0
                THEN <<"Path traversal attempt detected in path">> ELSE <<>>,
     ml |-> <<"ML model detected " \o mlr.threat_type>>]

\* the "findings" of what _combine_analysis_results returns
CombinedFindings(st, mlr) ==
    IF st.threat_score >= ConfidentScore THEN FindingsOf(st, mlr).static
    ELSE IF mlr.threat_score >= ConfidentScore THEN FindingsOf(st, mlr).ml
    ELSE FindingsOf(st, mlr).static \o FindingsOf(st, mlr).ml

NoCombine ==
    [static |-> NoResult, ml |-> NoResult, result |-> NoResult, findings |-> <<>>,
     done |-> FALSE]

CombineInit ==
    comb \in {[static |-> st, ml |-> mlr, result |-> NoResult, findings |-> <<>>,
               done |-> FALSE] :
                 st \in StaticResults, mlr \in MLResults}

Combine ==
    /\ ~comb.done
    /\ comb.static # NoResult
    /\ comb' = [comb EXCEPT !.result = CombineAnalysisResults(comb.static, comb.ml),
                            !.findings = CombinedFindings(comb.static, comb.ml),
                            !.done = TRUE]
    /\ UNCHANGED <<now, wafVars, rlVars, authVars, svc, lim, conf, rep>>

----------------------------------------------------------------------------
(* An IncidentService analysing requests on its own.  A request is described
   by the attack families its payload matches and by where the payload is. *)

MaxScans == 2        \* analyses begun on the instance in one behaviour

Locations == {"path", "body", "query"}

ScanRequests ==
    [hits : SUBSET Families, where : Locations, headers : Hdrs, admin : BOOLEAN]

\* _fast_static_analysis hands path, body, headers and user agent to
\* _perform_basic_static_analysis; url, which holds the query, is built and dropped
FastSeen(sr) == IF sr.where \in {"path", "body"} THEN sr.hits ELSE {}

FastStaticScan(sr) == BasicAnalysis(FastSeen(sr), sr.headers, sr.admin)

\* _get_attack_type_score
AttackTypeScore(family) ==
    CASE family = "command_injection" -> 90
      [] family = "sql_injection" -> 80
      [] family = "path_traversal" -> 85
      [] family = "nosql_injection" -> 80
      [] family = "xss" -> 75
      [] OTHER -> 70

\* the strings check_path_traversal finds the payload in: url and path, url and
\* the query value, or the body field
TraversalChecks(where) == IF where = "body" THEN 1 ELSE 2

\* self.threat_score once _perform_static_analysis is through, begun at entry
StaticRawScore(entry, sr) ==
    entry
    + (IF "path_traversal" \in sr.hits
       THEN TraversalScore * TraversalHits(PathTraversal) * TraversalChecks(sr.where)
       ELSE 0)
    + (IF "sql_injection" \in sr.hits THEN AttackTypeScore("sql_injection") ELSE 0)
    + (IF "xss" \in sr.hits THEN AttackTypeScore("xss") ELSE 0)
    + (IF "command_injection" \in sr.hits THEN AttackTypeScore("command_injection") ELSE 0)
    + (IF "nosql_injection" \in sr.hits THEN AttackTypeScore("nosql_injection") ELSE 0)

SeverityOrder(type) ==
    CASE type = "command_injection" -> 5
      [] type \in {"sql_injection", "path_traversal"} -> 4
      [] type \in {"nosql_injection", "xss"} -> 3
      [] type = "suspicious" -> 1
      [] OTHER -> 0

\* _determine_primary_threat: max() over a set returns the first of the most
\* severe types in the set's iteration order, so any of them can come out
DeterminePrimaryThreat(types, score) ==
    IF types = {} THEN {IF score < 50 THEN "safe" ELSE "suspicious"}
    ELSE {t \in types : \A u \in types : SeverityOrder(u) <= SeverityOrder(t)}

\* analyze_raw_request, line 1054
ResetThreatScoreSkipped(score) == score
ResetThreatScore(score) == 0

NoScan ==
    [kind |-> "none",
     input |-> [hits |-> {}, where |-> "none", headers |-> "none", admin |-> FALSE],
     entry |-> 0, seen |-> {},
     result |-> NoResult]

IdleService == [threat_score |-> 0, awaiting |-> 0, n |-> 0, call |-> NoScan]

\* analyze_raw_request with static analysis only, up to its first suspension in
\* _create_analysis_result: nothing is awaited between the reset and the result
BeginRawAnalysis(sr) ==
    LET entry == svc.threat_score
        raw == StaticRawScore(ResetThreatScore(entry), sr)
    IN  /\ svc.n < MaxScans
        /\ \E t \in DeterminePrimaryThreat(sr.hits, raw) :
               svc' = [threat_score |-> raw, awaiting |-> svc.awaiting + 1,
                       n |-> svc.n + 1,
                       call |-> [kind |-> "static", input |-> sr, entry |-> entry,
                                 seen |-> sr.hits,
                                 result |-> [threat_score |-> Min(raw, 100),
                                             threat_type |-> t]]]
        /\ UNCHANGED <<now, wafVars, rlVars, authVars, comb, lim, conf, rep>>

\* a suspended analyze_raw_request resumes and returns
FinishRawAnalysis ==
    /\ svc.awaiting > 0
    /\ svc' = [svc EXCEPT !.awaiting = @ - 1]
    /\ UNCHANGED <<now, wafVars, rlVars, authVars, comb, lim, conf, rep>>

\* WAFEngine._fast_static_analysis on an engine with an incident service
FastAnalysis(sr) ==
    /\ svc.n < MaxScans
    /\ svc' = [svc EXCEPT !.n = @ + 1,
                          !.call = [kind |-> "fast", input |-> sr,
                                    entry |-> svc.threat_score, seen |-> FastSeen(sr),
                                    result |-> FastStaticScan(sr)]]
    /\ UNCHANGED <<now, wafVars, rlVars, authVars, comb, lim, conf, rep>>

----------------------------------------------------------------------------
(* IncidentService.analyze_request: basic static analysis, threat           *)
(* intelligence with its reputation cache, and the combiner                 *)

MaxIntelTime == 3    \* clock ticks in one behaviour
MaxAnalyses == 2     \* analyze_request calls in one behaviour
ReputationTtl == 2   \* cache_ttl (3600 s) in ticks
BasicBlockScore == 50
IntelBlockScore == 75
FeedConfidence == 75
YaraScores == {0, 50}

PrivateIp == [kind |-> "ip", value |-> "10.0.0.5"]
PublicIp == [kind |-> "ip", value |-> "203.0.113.9"]
Domain == [kind |-> "domain", value |-> "evil.example"]
Url == [kind |-> "url", value |-> "http://evil.example/x"]
Indicators == {PrivateIp, PublicIp, Domain, Url}

NoRecord == [timestamp |-> 0 - 1]
EmptyReputationCache == [x \in Indicators |-> NoRecord]

ReputationData(malicious, categories) ==
    [is_malicious |-> malicious, confidence |-> IF malicious THEN FeedConfidence ELSE 0,
     categories |-> categories,
     sources |-> IF malicious THEN <<"threat_feeds">> ELSE <<>>]

\* check_ip_reputation / check_domain_reputation on the cache c at time t;
\* listed: the indicators the feeds hold
CheckReputation(c, x, listed, t) ==
    IF c[x] # NoRecord /\ t - c[x].timestamp < ReputationTtl
    THEN [cache |-> c, data |-> c[x].data, missed |-> FALSE]
    ELSE IF x = PrivateIp
    THEN [cache |-> c, data |-> ReputationData(FALSE, <<"private_ip">>), missed |-> TRUE]
    ELSE LET data == ReputationData(x \in listed,
                                    IF x \in listed THEN <<x.kind>> ELSE <<>>)
         IN  [cache |-> [c EXCEPT ![x] = [data |-> data, timestamp |-> t]],
              data |-> data, missed |-> TRUE]

\* check_url_reputation: the URL's domain is looked up through the cache
CheckUrlReputation(c, x, listed, t) ==
    IF c[x] # NoRecord /\ t - c[x].timestamp < ReputationTtl
    THEN [cache |-> c, data |-> c[x].data, missed |-> FALSE]
    ELSE LET dom == CheckReputation(c, Domain, listed, t)
             cats == (IF dom.data.is_malicious THEN dom.data.categories ELSE <<>>)
                        \o (IF x \in listed THEN <<x.kind>> ELSE <<>>)
             data == [is_malicious |-> dom.data.is_malicious \/ x \in listed,
                      confidence |-> IF dom.data.is_malicious \/ x \in listed
                                     THEN FeedConfidence ELSE 0,
                      categories |-> cats,
                      sources |-> (IF dom.data.is_malicious THEN dom.data.sources ELSE <<>>)
                                     \o (IF x \in listed THEN <<"threat_feeds">> ELSE <<>>)]
         IN  [cache |-> [dom.cache EXCEPT ![x] = [data |-> data, timestamp |-> t]],
              data |-> data, missed |-> TRUE]

Lookup(c, x, listed, t) ==
    IF x.kind = "url" THEN CheckUrlReputation(c, x, listed, t)
    ELSE CheckReputation(c, x, listed, t)

\* comprehensive_threat_analysis looks up the indicators it extracted: IPs,
\* then domains, then URLs
LookupOrder == <<PrivateIp, PublicIp, Domain, Url>>

\* the caches before lookup 1, 2, ... of the indicators iocs, starting from c
RECURSIVE CacheBefore(_, _, _, _, _)
CacheBefore(n, c, iocs, listed, t) ==
    IF n = 1 THEN c
    ELSE LET before == CacheBefore(n - 1, c, iocs, listed, t)
         IN  IF LookupOrder[n - 1] \in iocs
             THEN Lookup(before, LookupOrder[n - 1], listed, t).cache
             ELSE before

\* _perform_threat_intelligence_analysis: a ThreatIntelligenceService of its
\* own (an empty reputation cache) and one comprehensive_threat_analysis
ThreatIntelligenceAnalysis(yara, iocs, listed, t) ==
    LET at(n) == Lookup(CacheBefore(n, EmptyReputationCache, iocs, listed, t),
                        LookupOrder[n], listed, t)
        found == {n \in 1..Len(LookupOrder) : LookupOrder[n] \in iocs}
        RECURSIVE Sum(_)
        Sum(ns) == IF ns = {} THEN 0
                   ELSE LET n == CHOOSE m \in ns : TRUE
                        IN  (IF at(n).data.is_malicious THEN at(n).data.confidence ELSE 0)
                               + Sum(ns \ {n})
        overall == Min(yara + Sum(found), 100)
    IN  [cache |-> CacheBefore(Len(LookupOrder) + 1, EmptyReputationCache, iocs, listed, t),
         events |-> {[x |-> LookupOrder[n], missed |-> at(n).missed,
                      data |-> at(n).data] : n \in found},
         result |-> [threat_score |-> overall,
                     threat_type |-> IF overall > 50 THEN "suspicious" ELSE "safe",
                     should_block |-> overall >= IntelBlockScore]]

\* what the requests analysed here match, and the indicators they hold
IntelHits == {{}, {"xss"}}
IocSets == {iocs \in SUBSET Indicators : Cardinality(iocs) <= 2}
FeedStates == {{}, Indicators}

\* ThreatIntelligenceAnalysis, tabulated
IntelTable ==
    [yara \in YaraScores, iocs \in IocSets, listed \in FeedStates, t \in 0..MaxIntelTime |->
        ThreatIntelligenceAnalysis(yara, iocs, listed, t)]

\* the static results _perform_basic_static_analysis produces for them
BasicResults ==
    {[threat_score |-> r.threat_score, threat_type |-> r.threat_type,
      should_block |-> r.threat_score >= BasicBlockScore] :
        r \in {BasicAnalysis(hits, h, admin) :
                  hits \in IntelHits, h \in Hdrs, admin \in BOOLEAN}}

\* should_block of what _combine_analysis_results returns
CombinedShouldBlock(st, ti) ==
    IF st.threat_score >= ConfidentScore THEN st.should_block
    ELSE IF ti.threat_score >= ConfidentScore THEN ti.should_block
    ELSE Max(st.threat_score, ti.threat_score) >= ConfidentScore

NoIntelResult == [threat_score |-> 0 - 1, threat_type |-> "none", should_block |-> FALSE]

\* at: the time of the latest analysis; computed: per indicator, the time a
\* lookup last computed its record; prior: the same before the latest analysis
NoIntel ==
    [time |-> 0, at |-> 0, n |-> 0, cache |-> EmptyReputationCache, events |-> {},
     computed |-> [x \in Indicators |-> 0 - 1], prior |-> [x \in Indicators |-> 0 - 1],
     result |-> NoIntelResult]

AnalyzeRequestIntel(st, yara, iocs, listed) ==
    LET ti == IntelTable[yara, iocs, listed, rep.time]
        both == CombineAnalysisResults(st, ti.result)
    IN  /\ rep.n < MaxAnalyses
        /\ rep' = [time |-> rep.time, at |-> rep.time, n |-> rep.n + 1,
                   cache |-> ti.cache, events |-> ti.events,
                   computed |-> [x \in Indicators |->
                                   IF \E e \in ti.events : e.x = x /\ e.missed
                                   THEN rep.time ELSE rep.computed[x]],
                   prior |-> rep.computed,
                   result |-> [threat_score |-> both.threat_score,
                               threat_type |-> both.threat_type,
                               should_block |-> CombinedShouldBlock(st, ti.result)]]
        /\ UNCHANGED <<now, wafVars, rlVars, authVars, comb, svc, lim, conf>>

TickIntel ==
    /\ rep.time < MaxIntelTime
    /\ rep' = [rep EXCEPT !.time = @ + 1]
    /\ UNCHANGED <<now, wafVars, rlVars, authVars, comb, svc, lim, conf>>

----------------------------------------------------------------------------
(* The integrations: what becomes of a request once analyze_request is done *)

\* WAFMiddleware.dispatch: an exception of the analysis is caught and the
\* request goes on; BLOCK and CHALLENGE are answered by the middleware
AsgiDispatchOnShouldBlock(call) ==
    IF call.outcome = "raised" THEN "forwarded"
    ELSE IF call.dec.should_block THEN "answered"
    ELSE "forwarded"
AsgiDispatch(call) ==
    IF call.outcome = "raised" THEN "forwarded"
    ELSE IF call.dec.action = "block" THEN "answered"
    ELSE IF call.dec.action = "challenge" THEN "answered"
    ELSE "forwarded"

\* ReverseProxyWAF._handle_request
ProxyHandleRequest(call) ==
    IF call.outcome = "raised" THEN "error"
    ELSE IF call.dec.should_block THEN "answered"
    ELSE "forwarded"

\* WSGIWAFMiddleware.__call__
WsgiCall(call) ==
    IF call.outcome = "raised" THEN "error"
    ELSE IF call.dec.should_block THEN "answered"
    ELSE "forwarded"

\* what the integration of this configuration does with the call
Delivery(call) ==
    IF cfg.integration = "asgi" THEN AsgiDispatch(call)
    ELSE IF cfg.integration = "proxy" THEN ProxyHandleRequest(call)
    ELSE WsgiCall(call)

----------------------------------------------------------------------------
(* RateLimiter: the sorted set of one (api_key, endpoint) *)

Instances == {1, 2}

\* zremrangebyscore(key, 0, window_start)
ZRemRangeByScore(z, lo, hi) == {m \in z : ~(lo <= m /\ m <= hi)}

\* zadd(key, {str(t): t}): the member is the timestamp's text, so adding a
\* timestamp already present adds nothing
ZAdd(z, t) == z \cup {t}

ZCard(z) == Cardinality(z)

\* zrange(key, 0, 0): the member with the lowest score
ZFirst(z) == CHOOSE m \in z : \A n \in z : m <= n

IsLimitedOffByOne(count, maxRequests) == count > maxRequests
IsLimited(count, maxRequests) == count >= maxRequests

\* the limit_info dict
LimitInfoWith(z, count, t, maxRequests, windowSeconds) ==
    [limit |-> maxRequests,
     remaining |-> Max(0, maxRequests - count),
     reset |-> IF count > 0 /\ z # {} THEN ZFirst(z) + windowSeconds ELSE t + windowSeconds,
     window_seconds |-> windowSeconds]

LimitInfo(z, count, t) == LimitInfoWith(z, count, t, RateLimit, RateWindow)

NoInfo == [limit |-> 0, remaining |-> 0, reset |-> 0, window_seconds |-> 0]

IdleInstance == [pc |-> "idle", t |-> 0, count |-> 0]

NoCheck ==
    [outcome |-> "none", is_limited |-> FALSE, info |-> NoInfo, time |-> 0,
     admitted_before |-> 0, last_admit |-> 0 - 1, by |-> 0]

\* history: the checks admitted at tick u
AdmittedIn(h, lo, hi) ==
    LET ticks == {u \in DOMAIN h : lo < u /\ u <= hi}
        F[S \in SUBSET ticks] ==
            IF S = {} THEN 0
            ELSE LET u == CHOOSE x \in S : TRUE IN h[u].admitted + F[S \ {u}]
    IN  F[ticks]

LastAdmit(h) ==
    IF \E u \in DOMAIN h : h[u].admitted > 0
    THEN CHOOSE u \in DOMAIN h : h[u].admitted > 0 /\ \A v \in DOMAIN h : h[v].admitted > 0 => v <= u
    ELSE 0 - 1

Check(i, limited, info, t) ==
    [outcome |-> "returned", is_limited |-> limited, info |-> info, time |-> t,
     admitted_before |-> AdmittedIn(rlHist, t - RateWindow, t),
     last_admit |-> LastAdmit(rlHist), by |-> i]

ChecksMade == AdmittedIn([u \in DOMAIN rlHist |-> [admitted |-> rlHist[u].checked]], 0 - 1, MaxRLTime + 1)

LimiterInit ==
    /\ zset = {}
    /\ zexpire = 0
    /\ rl = [i \in Instances |-> IdleInstance]
    /\ rlLast = NoCheck
    /\ rlHist = [u \in 0..(MaxRLTime + 1) |-> [checked |-> 0, admitted |-> 0]]

\* is_rate_limited run from start to end by one instance with no other
\* instance in between
IsRateLimited(i) ==
    LET t == now
        pruned == ZRemRangeByScore(zset, 0, t - RateWindow)
        count == ZCard(pruned)
        limited == IsLimited(count, RateLimit)
        z2 == IF limited THEN pruned ELSE ZAdd(pruned, t)
    IN  /\ ChecksMade < MaxChecks
        /\ \A j \in Instances : rl[j].pc = "idle"
        /\ zset' = z2
        /\ zexpire' = IF limited THEN zexpire ELSE t + RateWindow
        /\ rlLast' = Check(i, limited, LimitInfo(z2, count, t), t)
        /\ rlHist' = [rlHist EXCEPT ![t].checked = @ + 1,
                                    ![t].admitted = @ + (IF limited THEN 0 ELSE 1)]
        /\ UNCHANGED <<now, rl, wafVars, authVars, pureVars>>

\* is_rate_limited, command by command
RLPrune(i) ==
    /\ ChecksMade < MaxChecks
    /\ rl[i].pc = "idle"
    /\ zset' = ZRemRangeByScore(zset, 0, now - RateWindow)
    /\ rl' = [rl EXCEPT ![i] = [pc |-> "pruned", t |-> now, count |-> 0]]
    /\ rlHist' = [rlHist EXCEPT ![now].checked = @ + 1]
    /\ UNCHANGED <<now, zexpire, rlLast, wafVars, authVars, pureVars>>

RLCount(i) ==
    /\ rl[i].pc = "pruned"
    /\ rl' = [rl EXCEPT ![i].pc = "counted", ![i].count = ZCard(zset)]
    /\ UNCHANGED <<now, zset, zexpire, rlLast, rlHist, wafVars, authVars, pureVars>>

RLAdd(i) ==
    /\ rl[i].pc = "counted"
    /\ ~IsLimited(rl[i].count, RateLimit)
    /\ zset' = ZAdd(zset, rl[i].t)
    /\ zexpire' = now + RateWindow
    /\ rl' = [rl EXCEPT ![i].pc = "added"]
    /\ rlHist' = [rlHist EXCEPT ![rl[i].t].admitted = @ + 1]
    /\ UNCHANGED <<now, rlLast, wafVars, authVars, pureVars>>

RLReturn(i) ==
    /\ \/ rl[i].pc = "added"
       \/ rl[i].pc = "counted" /\ IsLimited(rl[i].count, RateLimit)
    /\ rlLast' = Check(i, IsLimited(rl[i].count, RateLimit),
                       LimitInfo(zset, rl[i].count, rl[i].t), rl[i].t)
    /\ rl' = [rl EXCEPT ![i] = IdleInstance]
    /\ UNCHANGED <<now, zset, zexpire, rlHist, wafVars, authVars, pureVars>>

\* the clock advances; Redis drops the key once its expiry has passed
TickRL ==
    /\ now < MaxRLTime
    /\ now' = now + 1
    /\ zset' = IF zset # {} /\ now' >= zexpire THEN {} ELSE zset
    /\ UNCHANGED <<zexpire, rl, rlLast, rlHist, wafVars, authVars, pureVars>>

----------------------------------------------------------------------------
(* RateLimitMiddleware.dispatch with the custom limits of RateLimiter *)

MaxLimTime == 2      \* clock ticks of the custom-limit model
MaxSets == 1         \* set_custom_limits calls in one behaviour
MaxDispatches == 3   \* requests through RateLimitMiddleware.dispatch

ApiKeys == {"key-a", "key-b"}
CustomMaxRequests == {0, 1, 3}
CustomWindows == {0, 1}

\* no custom limits stored: get_custom_limits returns None, written 0 - 1 here
NoCustomLimits == [max_requests |-> 0 - 1, window_seconds |-> 0 - 1]

\* x or default: None and 0 are both false
OrDefault(x, default) == IF x = 0 - 1 \/ x = 0 THEN default ELSE x

\* redis.get("custom_limits:<api_key>") and json.loads
GetCustomLimits(store, apiKey) == store[apiKey]

LimitsInit ==
    [store |-> [k \in ApiKeys |-> NoCustomLimits],
     z |-> [k \in ApiKeys |-> {}],
     expire |-> [k \in ApiKeys |-> 0],
     sets |-> 0, dispatches |-> 0,
     last |-> [api_key |-> "none", is_limited |-> FALSE, info |-> NoInfo,
               custom |-> NoCustomLimits]]

\* redis.set("custom_limits:<api_key>", json.dumps(limits))
SetCustomLimits(apiKey, maxRequests, windowSeconds) ==
    /\ lim.sets < MaxSets
    /\ lim' = [lim EXCEPT !.store[apiKey] = [max_requests |-> maxRequests,
                                              window_seconds |-> windowSeconds],
                           !.sets = @ + 1]
    /\ UNCHANGED <<now, wafVars, rlVars, authVars, comb, svc, conf, rep>>

\* dispatch for a request carrying x-api-key: get_custom_limits, then
\* is_rate_limited with what it found
DispatchLimited(apiKey) ==
    LET custom == GetCustomLimits(lim.store, apiKey)
        maxRequests == OrDefault(custom.max_requests, RateLimit)
        windowSeconds == OrDefault(custom.window_seconds, RateWindow)
        pruned == ZRemRangeByScore(lim.z[apiKey], 0, now - windowSeconds)
        count == ZCard(pruned)
        limited == IsLimited(count, maxRequests)
        z2 == IF limited THEN pruned ELSE ZAdd(pruned, now)
    IN  /\ lim.dispatches < MaxDispatches
        /\ lim' = [lim EXCEPT
                      !.z[apiKey] = z2,
                      !.expire[apiKey] = IF limited THEN @ ELSE now + windowSeconds,
                      !.dispatches = @ + 1,
                      !.last = [api_key |-> apiKey, is_limited |-> limited,
                                info |-> LimitInfoWith(z2, count, now, maxRequests,
                                                       windowSeconds),
                                custom |-> custom]]
        /\ UNCHANGED <<now, wafVars, rlVars, authVars, comb, svc, conf, rep>>

\* the clock advances; Redis drops the sorted sets whose expiry has passed
TickLimits ==
    /\ now < MaxLimTime
    /\ now' = now + 1
    /\ lim' = [lim EXCEPT !.z = [k \in ApiKeys |->
                                    IF lim.z[k] # {} /\ now' >= lim.expire[k]
                                    THEN {} ELSE lim.z[k]]]
    /\ UNCHANGED <<wafVars, rlVars, authVars, comb, svc, conf, rep>>

----------------------------------------------------------------------------
(* AuthRateLimitMiddleware *)

AuthIPs == {"198.51.100.1"}
AuthMethods == {"POST", "GET"}
RequestPaths == {"/api/v1/auth/token", "/api/v1/users/me"}
AuthPatterns ==
    {"/api/v1/auth/token", "/api/v1/auth/register", "/api/v1/auth/refresh",
     "/api/v1/auth/reset-password"}
Statuses == {200, 401}

NoLock == 0 - 1

\* the middleware stack of main.py, outermost first: add_middleware puts each
\* new middleware around those added before it
MiddlewareOrder ==
    <<"RateLimitMiddleware", "HTTPSRedirectMiddleware", "SecurityHeadersMiddleware",
      "AuthRateLimitMiddleware", "RequestLoggingMiddleware", "WAFMiddleware",
      "CORSMiddleware", "router">>

\* the layers a request has entered when it is inside layer m
ReachedAt(m) ==
    LET i == CHOOSE k \in 1..Len(MiddlewareOrder) : MiddlewareOrder[k] = m
    IN  {MiddlewareOrder[k] : k \in 1..i}

ReachedAll == {MiddlewareOrder[k] : k \in 1..Len(MiddlewareOrder)}

IsAuthEndpoint(path) == path \in AuthPatterns

\* _is_locked_out: true while the lockout has not expired
IsLockedOutStrict(locks, ip, t) == locks[ip] # NoLock /\ t < locks[ip]
IsLockedOut(locks, ip, t) == locks[ip] # NoLock /\ ~(t > locks[ip])

\* _is_locked_out deletes an expired record
LockoutsAfterCheck(locks, ip, t) ==
    IF locks[ip] # NoLock /\ t > locks[ip] THEN [locks EXCEPT ![ip] = NoLock] ELSE locks

CountSince(atts, since) == Cardinality({k \in 1..Len(atts) : atts[k][1] > since})

\* _get_attempt_counts
MinuteCount(atts, t) == CountSince(atts, t - MinuteTicks)
HourCount(atts, t) == CountSince(atts, t - HourTicks)
DayCount(atts, t) == CountSince(atts, t - DayTicks)

\* _check_rate_limits: the threshold that trips, checked minute, hour, day
TrippedLimit(atts, t) ==
    IF MinuteCount(atts, t) >= AttemptsPerMinute THEN "minute"
    ELSE IF HourCount(atts, t) >= AttemptsPerHour THEN "hour"
    ELSE IF DayCount(atts, t) >= AttemptsPerDay THEN "day"
    ELSE "none"

\* the Retry-After header of the 429 raised by _check_rate_limits
LimitRetryAfter(tripped) ==
    IF tripped = "minute" THEN MinuteTicks
    ELSE IF tripped = "hour" THEN HourTicks
    ELSE DayTicks

\* _apply_lockout
ApplyLockoutAtAttempt(locks, ip, t) ==
    [locks EXCEPT ![ip] = attempts[ip][Len(attempts[ip])][1] + LockoutTicks]
ApplyLockout(locks, ip, t) == [locks EXCEPT ![ip] = t + LockoutTicks]

SelectSeq2(atts, since) ==
    LET keep == {k \in 1..Len(atts) : atts[k][1] > since}
        pos(k) == Cardinality({j \in keep : j <= k})
    IN  [n \in 1..Cardinality(keep) |-> atts[CHOOSE k \in keep : pos(k) = n]]

\* _cleanup_old_attempts
CleanupOldAttempts(atts, t) == SelectSeq2(atts, t - DayTicks)

NoEvent ==
    [kind |-> "none", ip |-> "none", method |-> "none", path |-> "none",
     result |-> "none", status |-> 0, retry_after |-> 0, tripped |-> "none",
     reached |-> {}, time |-> 0, was_locked |-> FALSE, lock_expired |-> FALSE]

Event(kind, ip, method, path, result, status, retry, tripped, reached, wasLocked) ==
    [kind |-> kind, ip |-> ip, method |-> method, path |-> path,
     result |-> result, status |-> status, retry_after |-> retry, tripped |-> tripped,
     reached |-> reached, time |-> now, was_locked |-> wasLocked,
     lock_expired |-> lockouts[ip] # NoLock /\ now > lockouts[ip]]

AuthInit ==
    /\ attempts = [ip \in AuthIPs |-> <<>>]
    /\ lockouts = [ip \in AuthIPs |-> NoLock]
    /\ inflight = [r \in AuthIPs \X AuthMethods |-> 0]
    /\ aseq = 0
    /\ aev = NoEvent

\* dispatch, for a path that is no auth endpoint: straight to call_next
Bypass(ip, method, path) ==
    /\ aseq < MaxArrivals
    /\ ~IsAuthEndpoint(path)
    /\ aseq' = aseq + 1
    /\ aev' = Event("arrive", ip, method, path, "bypass", 0, 0, "none", ReachedAll,
                    IsLockedOut(lockouts, ip, now))
    /\ UNCHANGED <<now, attempts, lockouts, inflight, wafVars, rlVars, pureVars>>

\* dispatch, up to the lockout check, which rejects the request
RejectLocked(ip, method, path) ==
    /\ aseq < MaxArrivals
    /\ IsAuthEndpoint(path)
    /\ IsLockedOut(lockouts, ip, now)
    /\ aseq' = aseq + 1
    /\ aev' = Event("arrive", ip, method, path, "locked", 429, lockouts[ip] - now, "none",
                    ReachedAt("AuthRateLimitMiddleware"), TRUE)
    /\ UNCHANGED <<now, attempts, lockouts, inflight, wafVars, rlVars, pureVars>>

\* dispatch, up to _check_rate_limits, which locks the identity out and
\* rejects the request
RejectLimited(ip, method, path) ==
    LET tripped == TrippedLimit(attempts[ip], now)
    IN  /\ aseq < MaxArrivals
        /\ IsAuthEndpoint(path)
        /\ ~IsLockedOut(lockouts, ip, now)
        /\ tripped # "none"
        /\ lockouts' = ApplyLockout(LockoutsAfterCheck(lockouts, ip, now), ip, now)
        /\ aseq' = aseq + 1
        /\ aev' = Event("arrive", ip, method, path, "limited", 429,
                        LimitRetryAfter(tripped), tripped,
                        ReachedAt("AuthRateLimitMiddleware"), FALSE)
        /\ UNCHANGED <<now, attempts, inflight, wafVars, rlVars, pureVars>>

\* dispatch, up to call_next: the attempt is recorded and the request goes on
\* to the layers below
Admit(ip, method, path) ==
    /\ aseq < MaxArrivals
    /\ IsAuthEndpoint(path)
    /\ ~IsLockedOut(lockouts, ip, now)
    /\ TrippedLimit(attempts[ip], now) = "none"
    /\ lockouts' = LockoutsAfterCheck(lockouts, ip, now)
    /\ attempts' = [attempts EXCEPT
                       ![ip] = CleanupOldAttempts(Append(@, <<now, path>>), now)]
    /\ inflight' = [inflight EXCEPT ![<<ip, method>>] = @ + 1]
    /\ aseq' = aseq + 1
    /\ aev' = Event("arrive", ip, method, path, "passed", 0, 0, "none", ReachedAll, FALSE)
    /\ UNCHANGED <<now, wafVars, rlVars, pureVars>>

\* the test dispatch makes on the response of call_next
SuccessfulAuthOnGet(status, method) == status = 200 /\ method = "GET"
SuccessfulAuth(status, method) == status = 200 /\ method = "POST"

\* dispatch, after call_next has answered: a POST answered 200 clears the
\* identity's attempts and lockout
Complete(ip, method, status) ==
    LET success == SuccessfulAuth(status, method)
    IN  /\ inflight[<<ip, method>>] > 0
        /\ inflight' = [inflight EXCEPT ![<<ip, method>>] = @ - 1]
        /\ attempts' = IF success THEN [attempts EXCEPT ![ip] = <<>>] ELSE attempts
        /\ lockouts' = IF success THEN [lockouts EXCEPT ![ip] = NoLock] ELSE lockouts
        /\ aev' = Event("complete", ip, method, "/api/v1/auth/token",
                        IF success THEN "cleared" ELSE "kept", status, 0, "none",
                        ReachedAll, IsLockedOut(lockouts, ip, now))
        /\ UNCHANGED <<now, aseq, wafVars, rlVars, pureVars>>

TickAuth ==
    /\ now < MaxAuthTime
    /\ now' = now + 1
    /\ UNCHANGED <<wafVars, rlVars, authVars, pureVars>>

InitAuth ==
    /\ now = 0
    /\ EngineInit({DefaultConfig})
    /\ LimiterInit
    /\ AuthInit
    /\ comb = NoCombine
    /\ svc = IdleService
    /\ lim = LimitsInit
    /\ conf = NoConfig
    /\ rep = NoIntel

NextAuth ==
    \/ \E ip \in AuthIPs, m \in AuthMethods, p \in RequestPaths : Bypass(ip, m, p)
    \/ \E ip \in AuthIPs, m \in AuthMethods, p \in RequestPaths : RejectLocked(ip, m, p)
    \/ \E ip \in AuthIPs, m \in AuthMethods, p \in RequestPaths : RejectLimited(ip, m, p)
    \/ \E ip \in AuthIPs, m \in AuthMethods, p \in RequestPaths : Admit(ip, m, p)
    \/ \E ip \in AuthIPs, m \in AuthMethods, st \in Statuses : Complete(ip, m, st)
    \/ TickAuth

SpecAuth == InitAuth /\ [][NextAuth]_vars

\* gunicorn starts several worker processes; each builds the application, and
\* with it an AuthRateLimitMiddleware with attempts and lockouts of its own.
\* A key names the entry one worker keeps for the client 198.51.100.1.
WorkerEntries == {"worker-1/198.51.100.1", "worker-2/198.51.100.1"}

WorkersInit ==
    /\ attempts = [k \in WorkerEntries |-> <<>>]
    /\ lockouts = [k \in WorkerEntries |-> NoLock]
    /\ inflight = [r \in WorkerEntries \X AuthMethods |-> 0]
    /\ aseq = 0
    /\ aev = NoEvent

InitWorkers ==
    /\ now = 0
    /\ EngineInit({DefaultConfig})
    /\ LimiterInit
    /\ WorkersInit
    /\ comb = NoCombine
    /\ svc = IdleService
    /\ lim = LimitsInit
    /\ conf = NoConfig
    /\ rep = NoIntel

\* failed logins only: POST /api/v1/auth/token answered 401
NextWorkers ==
    \/ \E k \in WorkerEntries : RejectLocked(k, "POST", "/api/v1/auth/token")
    \/ \E k \in WorkerEntries : RejectLimited(k, "POST", "/api/v1/auth/token")
    \/ \E k \in WorkerEntries : Admit(k, "POST", "/api/v1/auth/token")
    \/ \E k \in WorkerEntries : Complete(k, "POST", 401)
    \/ TickAuth

SpecWorkers == InitWorkers /\ [][NextWorkers]_vars

----------------------------------------------------------------------------
(* Specifications *)

InitCombine ==
    /\ now = 0
    /\ EngineInit({DefaultConfig})
    /\ LimiterInit
    /\ AuthInit
    /\ CombineInit
    /\ svc = IdleService
    /\ lim = LimitsInit
    /\ conf = NoConfig
    /\ rep = NoIntel

NextCombine == Combine

SpecCombine == InitCombine /\ [][NextCombine]_vars

InitService ==
    /\ now = 0
    /\ EngineInit({DefaultConfig})
    /\ LimiterInit
    /\ AuthInit
    /\ comb = NoCombine
    /\ svc = IdleService
    /\ lim = LimitsInit
    /\ conf = NoConfig
    /\ rep = NoIntel

NextService ==
    \/ \E sr \in ScanRequests : BeginRawAnalysis(sr)
    \/ FinishRawAnalysis
    \/ \E sr \in ScanRequests : FastAnalysis(sr)

InitIntel ==
    /\ now = 0
    /\ EngineInit({DefaultConfig})
    /\ LimiterInit
    /\ AuthInit
    /\ comb = NoCombine
    /\ svc = IdleService
    /\ lim = LimitsInit
    /\ conf = NoConfig
    /\ rep = NoIntel

NextIntel ==
    \/ \E st \in BasicResults, yara \in YaraScores, iocs \in IocSets,
          listed \in FeedStates : AnalyzeRequestIntel(st, yara, iocs, listed)
    \/ TickIntel

SpecIntel == InitIntel /\ [][NextIntel]_vars

InitConfig ==
    /\ now = 0
    /\ EngineInit({DefaultConfig})
    /\ LimiterInit
    /\ AuthInit
    /\ comb = NoCombine
    /\ svc = IdleService
    /\ lim = LimitsInit
    /\ conf = NoConfig
    /\ rep = NoIntel

NextConfig ==
    \/ \E b \in ThresholdInputs, c \in ThresholdInputs, l \in ThresholdInputs :
          BuildConfig(b, c, l)
    \/ \E sc \in ScoreInputs : ClassifyScore(sc)

SpecConfig == InitConfig /\ [][NextConfig]_vars

SpecService == InitService /\ [][NextService]_vars

InitLimits ==
    /\ now = 0
    /\ EngineInit({DefaultConfig})
    /\ LimiterInit
    /\ AuthInit
    /\ comb = NoCombine
    /\ svc = IdleService
    /\ lim = LimitsInit
    /\ conf = NoConfig
    /\ rep = NoIntel

NextLimits ==
    \/ \E k \in ApiKeys, m \in CustomMaxRequests, w \in CustomWindows :
          SetCustomLimits(k, m, w)
    \/ \E k \in ApiKeys : DispatchLimited(k)
    \/ TickLimits

SpecLimits == InitLimits /\ [][NextLimits]_vars

InitWAF ==
    /\ now = 0
    /\ EngineInit(Configs)
    /\ LimiterInit
    /\ AuthInit
    /\ comb = NoCombine
    /\ svc = IdleService
    /\ lim = LimitsInit
    /\ conf = NoConfig
    /\ rep = NoIntel

NextWAF ==
    \/ \E req \in Requests, ml \in MLOutcomes : AnalyzeRequest(req, ml)
    \/ \E t \in tasks, ml \in MLOutcomes : RunTask(t, ml)
    \/ Tick

SpecWAF == InitWAF /\ [][NextWAF]_vars

InitRL ==
    /\ now = 0
    /\ EngineInit({DefaultConfig})
    /\ LimiterInit
    /\ AuthInit
    /\ comb = NoCombine
    /\ svc = IdleService
    /\ lim = LimitsInit
    /\ conf = NoConfig
    /\ rep = NoIntel

NextRL ==
    \/ \E i \in Instances : IsRateLimited(i)
    \/ TickRL

SpecRL == InitRL /\ [][NextRL]_vars

NextRLConc ==
    \/ \E i \in Instances : RLPrune(i)
    \/ \E i \in Instances : RLCount(i)
    \/ \E i \in Instances : RLAdd(i)
    \/ \E i \in Instances : RLReturn(i)
    \/ TickRL

SpecRLConc == InitRL /\ [][NextRLConc]_vars

----------------------------------------------------------------------------
(* Claims about WAFEngine.analyze_request, checked under SpecWAF *)

Returned(c) == c.outcome = "returned"
ByAnalysis(c) == Returned(c) /\ c.how \in {"static_block", "async", "sync", "default"}
OnNoList(ip) == ip \notin Whitelist /\ ip \notin Blacklist

\* C1: a decision taken by analysis follows the thresholds: score >= block
\* gives BLOCK, challenge <= score < block gives CHALLENGE, score < log gives
\* ALLOW, a BLOCK stores a score >= block and a CHALLENGE one in
\* [challenge, block), in every analysis configuration.
C1_ActionFollowsThresholds ==
    ByAnalysis(last) =>
        /\ last.s >= BlockThreshold => last.dec.action = "block"
        /\ (ChallengeThreshold <= last.s /\ last.s < BlockThreshold)
               => last.dec.action = "challenge"
        /\ last.s < LogThreshold => last.dec.action = "allow"
        /\ last.dec.action = "block" => last.dec.threat_score >= BlockThreshold
        /\ last.dec.action = "challenge"
               => /\ ChallengeThreshold <= last.dec.threat_score
                  /\ last.dec.threat_score < BlockThreshold

\* C2: a request to a non-excluded path from a blocklisted IP is answered
\* BLOCK with category blacklisted_ip, whatever the cache holds and whether
\* or not the IP is also allowlisted.
C2_BlocklistedIpIsBlocked ==
    (last.outcome # "none" /\ ~IsPathExcluded(last.req.path)
        /\ last.req.client_ip \in Blacklist)
    => /\ Returned(last)
       /\ last.dec.action = "block"
       /\ last.dec.threat_type = "blacklisted_ip"

\* C3: a request to a non-excluded path from an IP on the allowlist and not
\* on the blocklist is answered ALLOW, even when a BLOCK is cached for its
\* fingerprint.
C3_AllowlistedIpIsAllowed ==
    (last.outcome # "none" /\ ~IsPathExcluded(last.req.path)
        /\ last.req.client_ip \in Whitelist /\ last.req.client_ip \notin Blacklist)
    => /\ Returned(last)
       /\ last.dec.action = "allow"

SameVerdict(d1, d2) ==
    /\ d1.action = d2.action
    /\ d1.threat_score = d2.threat_score
    /\ d1.threat_type = d2.threat_type

\* two consecutive calls with the same request, from an IP on no list, to a
\* non-excluded path, less than cache_ttl apart, with caching enabled
RepeatedWithinTtl ==
    /\ cfg.cache_enabled
    /\ Returned(prev) /\ Returned(last)
    /\ last.req = prev.req
    /\ ~IsPathExcluded(last.req.path)
    /\ OnNoList(last.req.client_ip)
    /\ last.time - prev.time < CacheTTL

\* C4: the second of two identical calls within cache_ttl returns the same
\* action, score and category with cache_hit = true, for every outcome of
\* the first call and in both ML modes.
C4_RepeatIsCacheHit ==
    RepeatedWithinTtl => (SameVerdict(prev.dec, last.dec) /\ last.dec.cache_hit)

\* C5: when the classifier raises during synchronous ML analysis,
\* analyze_request still returns a decision, the one the fast-path static
\* result alone gives.
C5_ClassifierFailureFailsOpen ==
    last.ml_raised =>
        /\ Returned(last)
        /\ SameVerdict(last.dec, CreateDecisionFromAnalysis(FastResult(last.req)))

----------------------------------------------------------------------------
(* Claims about RateLimiter.is_rate_limited *)

DistinctTimes == \A u \in DOMAIN rlHist : rlHist[u].checked <= 1

C7_SetNeverExceedsLimit == ZCard(zset) <= RateLimit

----------------------------------------------------------------------------
(* Claims about AuthRateLimitMiddleware *)

HoldsLockout(ip) == lockouts[ip] # NoLock /\ now <= lockouts[ip]

AttemptsSince(ip, since) ==
    Cardinality({k \in 1..Len(attempts[ip]) : attempts[ip][k][1] > since})

ThresholdReached(ip) ==
    \/ AttemptsSince(ip, now - MinuteTicks) >= AttemptsPerMinute
    \/ AttemptsSince(ip, now - HourTicks) >= AttemptsPerHour
    \/ AttemptsSince(ip, now - DayTicks) >= AttemptsPerDay

LastAttemptTime(ip) == attempts[ip][Len(attempts[ip])][1]

\* a request to an auth endpoint reaches dispatch in this step
AuthArrival == aseq' = aseq + 1 /\ IsAuthEndpoint(aev'.path)

\* C8 as claimed: as soon as an identity has made a threshold's number of
\* attempts within its window it holds a lockout record that expires
\* LockoutTicks after the last of these attempts was recorded.
C8_LockedOutAtThreshold ==
    \A ip \in AuthIPs :
        ThresholdReached(ip) =>
            /\ lockouts[ip] # NoLock
            /\ lockouts[ip] = LastAttemptTime(ip) + LockoutTicks

\* C8 as amended: the attempt that reaches a threshold is admitted and sets
\* no lockout; the next request of the identity that arrives while a
\* threshold is reached is rejected, is not recorded, and sets a lockout that
\* expires LockoutTicks after this request's arrival, whichever threshold
\* tripped; a lockout is set in no other way.
C8_LockedOutOnNextRequest ==
    [][\A ip \in AuthIPs :
          /\ (AuthArrival /\ aev'.ip = ip /\ ~HoldsLockout(ip) /\ ThresholdReached(ip))
                 => /\ aev'.result = "limited"
                    /\ lockouts'[ip] = now + LockoutTicks
                    /\ attempts'[ip] = attempts[ip]
          /\ (lockouts'[ip] # lockouts[ip] /\ lockouts'[ip] # NoLock)
                 => /\ AuthArrival /\ aev'.ip = ip /\ ThresholdReached(ip)
                    /\ lockouts'[ip] = now + LockoutTicks
          /\ (AuthArrival /\ aev'.ip = ip /\ aev'.result = "passed")
                 => lockouts'[ip] = NoLock]_vars

\* the per-day threshold trips, later than the last recorded attempt
C8_Witness ==
    /\ aev.result = "limited"
    /\ aev.tripped = "day"
    /\ lockouts[aev.ip] = aev.time + LockoutTicks
    /\ aev.time > LastAttemptTime(aev.ip)

C10_SuccessClears ==
    [][\A ip \in AuthIPs :
          (inflight'[<<ip, "POST">>] = inflight[<<ip, "POST">>] - 1 /\ aev'.status = 200)
              => /\ attempts'[ip] = <<>>
                 /\ lockouts'[ip] = NoLock]_vars

\* a success answered while the identity held an unexpired lockout
C10_Witness ==
    /\ aev.kind = "complete"
    /\ aev.method = "POST"
    /\ aev.status = 200
    /\ aev.was_locked
    /\ lockouts[aev.ip] = NoLock
    /\ attempts[aev.ip] = <<>>

\* C11: a request to an auth endpoint that arrives after the identity's
\* lockout has expired is passed on to the handler, whichever threshold
\* caused the lockout.
C11_ExpiredLockoutIsNormal ==
    (aev.kind = "arrive" /\ IsAuthEndpoint(aev.path) /\ aev.lock_expired)
        => aev.result = "passed"

\* C12: every rejection of the auth limiter that leaves the identity with an
\* unexpired lockout, the one that set the lockout included, has status 429
\* and a Retry-After equal to the lockout's expiry minus the time of the
\* rejection.
C12_RetryAfterIsRemainingLockout ==
    (aev.kind = "arrive" /\ aev.result \in {"locked", "limited"})
        => /\ aev.status = 429
           /\ aev.retry_after = lockouts[aev.ip] - aev.time

----------------------------------------------------------------------------
(* Claims about the combiner, the integrations and the engine's branches *)

\* C13: the combiner returns the larger of the two scores, also when one or
\* both are at or above 0.75.
C13_CombinerTakesMax ==
    comb.done =>
        comb.result.threat_score = Max(comb.static.threat_score, comb.ml.threat_score)

C15_ModeGovernsEnforcement ==
    last.outcome # "none" =>
        /\ cfg.mode \in {"log", "simulate"} => Delivery(last) = "forwarded"
        /\ Delivery(last) = "answered" => cfg.mode \in {"block", "challenge"}

\* C16: with or without a db session, an analysed request whose content
\* matches an attack family is blocked.
C16_BlockingNeedsNoDbSession ==
    (ByAnalysis(last) /\ cfg.static_enabled /\ MatchesPath(last.req))
        => last.dec.action = "block"

UnderExcludedPrefix(path) ==
    \E e \in ExcludedPaths :
        Len(e) <= Len(path) /\ \A i \in 1..Len(e) : path[i] = e[i]

\* C17: a call for a path under an excluded prefix returns ALLOW with score
\* 0 and changes neither the cache, the background tasks nor the sink,
\* whatever list the client IP is on.
C17_ExcludedPathIsAllowedAtOnce ==
    [][(stats'.total_requests = stats.total_requests + 1
            /\ UnderExcludedPrefix(last'.req.path))
        => /\ Returned(last')
           /\ last'.dec.action = "allow"
           /\ last'.dec.threat_score = 0
           /\ ~last'.dec.cache_hit
           /\ cache' = cache
           /\ tasks' = tasks
           /\ sink' = sink]_vars

\* a blocklisted IP asks for an excluded path while the cache holds an entry
C17_Witness ==
    /\ last.how = "excluded"
    /\ last.req.client_ip \in Blacklist
    /\ last.req.client_ip \notin Whitelist
    /\ last.req.path \notin ExcludedPaths
    /\ Len(cache) > 0

\* C18: when the fast static score reaches the block threshold the call
\* returns BLOCK from the fast path, no ML is run on the request path, and
\* with caching enabled the decision is in the cache under the request's
\* fingerprint when the call returns.
C18_StaticBlockShortCircuits ==
    (ByAnalysis(last) /\ cfg.static_enabled /\ last.fast >= BlockThreshold)
        => /\ last.how = "static_block"
           /\ last.dec.action = "block"
           /\ last.dec.threat_score = last.fast
           /\ ~last.ml_raised
           /\ cfg.cache_enabled
                  => \E i \in 1..Len(cache) :
                        /\ cache[i].key = GenerateCacheKey(last.req)
                        /\ cache[i].ts = last.time
                        /\ SameVerdict(cache[i].dec, last.dec)

\* a fast-path block in synchronous ML mode, where ML would otherwise run
C18_Witness ==
    /\ last.how = "static_block"
    /\ cfg.ml_enabled /\ ~cfg.ml_async /\ cfg.ml_loaded
    /\ cfg.cache_enabled
    /\ Len(cache) > 0

\* C19: in synchronous ML mode the score the decision is taken on is at
\* least the fast-path static score.
C19_SyncDecisionNotBelowFastPath ==
    (Returned(last) /\ last.how = "sync") => last.s >= last.fast

\* C20: in asynchronous mode the call returns the decision of the fast-path
\* result alone, and a background task that runs changes neither a returned
\* decision, nor the cache, nor the outcome of a call.
C20_BackgroundLeavesDecisionAlone ==
    [][/\ (last' # last /\ last'.how = "async")
           => /\ Returned(last')
              /\ SameVerdict(last'.dec, CreateDecisionFromAnalysis(FastResult(last'.req)))
       /\ (tasks' # tasks /\ tasks' \subseteq tasks)
           => /\ last' = last
              /\ prev' = prev
              /\ cache' = cache
              /\ stats' = stats]_vars

\* the background task of an asynchronous call has run
C20_Witness ==
    /\ last.how = "async"
    /\ Returned(last)
    /\ cfg.cache_enabled
    /\ tasks = {}

\* C21: every decision analyze_request returns is consistent: BLOCK exactly with
\* status 403 and should_block, CHALLENGE exactly with status 429 and a body
\* naming the challenge endpoint, ALLOW exactly with status 200 and an empty
\* body, and no other action or status occurs.
C21_DecisionIsConsistent ==
    Returned(last) =>
        LET d == last.dec
        IN  /\ d.action \in {"allow", "block", "challenge"}
            /\ d.response_code \in {200, 403, 429}
            /\ (d.action = "block") = (d.response_code = 403)
            /\ (d.response_code = 403) = d.should_block
            /\ (d.action = "challenge") = (d.response_code = 429)
            /\ (d.action = "challenge" =>
                    /\ "challenge_url" \in DOMAIN d.response_body
                    /\ d.response_body.challenge_url = "/challenge")
            /\ (d.action = "allow") = (d.response_code = 200)
            /\ (d.action = "allow" => d.response_body = <<>>)

C21_Witness ==
    /\ Returned(last) /\ last.dec.action = "challenge"
    /\ Returned(prev) /\ prev.dec.action = "block"

HasRequestId(d) == "request_id" \in DOMAIN d.response_body

\* C22: two requests answered at different clock readings with a blocked or
\* challenged response never carry the same request_id, a response served from
\* the decision cache included.
C22_RequestIdIsUnique ==
    (/\ Returned(last) /\ Returned(prev)
     /\ last.time # prev.time
     /\ HasRequestId(last.dec) /\ HasRequestId(prev.dec))
        => last.dec.response_body.request_id # prev.dec.response_body.request_id

ScanDone(kind) == svc.call.kind = kind

MostSevere(types) ==
    {t \in types : \A u \in types : SeverityOrder(u) <= SeverityOrder(t)}

\* C23: whenever a static analysis matched one or more attack families, the
\* category it reports is one of the most severe families among those matched
\* (command_injection > sql_injection = path_traversal > nosql_injection = xss).
C23_ReportsMostSevereFamily ==
    (svc.call.kind \in {"static", "fast"} /\ svc.call.seen # {} /\ ~svc.call.input.admin)
        => svc.call.result.threat_type \in MostSevere(svc.call.seen)

C29_QueryIsScannedLikePath ==
    (ScanDone("fast") /\ svc.call.input.where = "query")
        => svc.call.result = FastStaticScan([svc.call.input EXCEPT !.where = "path"])

\* C25: a rate-limit check for an API key with custom limits (m, w) is made
\* with limit m and window w, and a check for a key without custom limits is
\* made with the global defaults.
C25_CustomLimitsOverrideDefaults ==
    lim.last.api_key \in ApiKeys =>
        IF lim.last.custom # NoCustomLimits
        THEN /\ lim.last.info.limit = lim.last.custom.max_requests
             /\ lim.last.info.window_seconds = lim.last.custom.window_seconds
        ELSE /\ lim.last.info.limit = RateLimit
             /\ lim.last.info.window_seconds = RateWindow

Reported(req) == \E r \in sink : r.path = req.path /\ r.client_ip = req.client_ip

\* C26: once a request has been answered BLOCK and no background task is left
\* to run, the incident sink holds a record for that request, whether the
\* block came from an analysis, from the decision cache or from the blocklist.
C26_BlockIsReported ==
    (Returned(last) /\ last.dec.action = "block" /\ tasks = {})
        => Reported(last.req)

\* C27: the thresholds of every WAFConfig that was built are ordered:
\* log <= challenge <= block.
C27_ThresholdsAreMonotonic ==
    conf.status = "built" =>
        /\ conf.thresholds.log <= conf.thresholds.challenge
        /\ conf.thresholds.challenge <= conf.thresholds.block

\* C28: a decision served from the cache is the one a fresh analysis of the
\* same request gives: BLOCK for a blocklisted client, ALLOW for an allowlisted
\* one, BLOCK when the request's own fast-path score reaches the block
\* threshold, whichever client's request filled the entry.
C28_CacheHitEqualsFreshAnalysis ==
    (Returned(last) /\ last.how = "cache" /\ Returned(prev))
        => /\ CheckIpLists(last.req.client_ip) = "block" => last.dec.action = "block"
           /\ CheckIpLists(last.req.client_ip) = "allow" => last.dec.action = "allow"
           /\ (CheckIpLists(last.req.client_ip) = "none" /\ cfg.static_enabled
                 /\ FastStaticAnalysis(last.req).threat_score >= BlockThreshold)
                => last.dec.action = "block"

\* C30: the combined category is the category of the analyzer with the larger
\* score and, when the two scores are equal, the more severe of the two
\* categories, at every combined score.
C30_CategoryFollowsMaxScore ==
    comb.done =>
        /\ comb.ml.threat_score > comb.static.threat_score
              => comb.result.threat_type = comb.ml.threat_type
        /\ comb.static.threat_score > comb.ml.threat_score
              => comb.result.threat_type = comb.static.threat_type
        /\ comb.static.threat_score = comb.ml.threat_score
              => comb.result.threat_type
                    \in MostSevere({comb.static.threat_type, comb.ml.threat_type})

----------------------------------------------------------------------------
(* Claims about findings, the limiter's window, the cache and should_block *)

\* C31: unless both analyzers score 0.75 or more, the combined findings are
\* the static findings followed by the classifier's, none left out.
C31_FindingsAreConcatenated ==
    (comb.done /\ ~(comb.static.threat_score >= ConfidentScore
                     /\ comb.ml.threat_score >= ConfidentScore))
        => comb.findings = FindingsOf(comb.static, comb.ml).static
                             \o FindingsOf(comb.static, comb.ml).ml

\* C32: right after a check, the sorted set holds one entry for each request
\* admitted within the window, requests admitted at one timestamp included.
C32_OneEntryPerAdmittedRequest ==
    (rlLast.outcome = "returned" /\ rlLast.time = now)
        => ZCard(zset) = AdmittedIn(rlHist, now - RateWindow, now)

\* C39: after a check that was not limited, with all checks at distinct times,
\* the reported remaining is the limit minus the entries of the window with
\* the request just recorded, and it is 0 exactly when an immediate further
\* check would be limited.
C39_RemainingCountsTheRequest ==
    (/\ rlLast.outcome = "returned" /\ ~rlLast.is_limited
     /\ rlLast.time = now /\ DistinctTimes)
        => /\ rlLast.info.remaining = RateLimit - ZCard(zset)
           /\ (rlLast.info.remaining = 0) = IsLimited(ZCard(zset), RateLimit)

\* C33: over all workers of the service, the attempts of one client that were
\* passed on to the handler within the last minute never exceed the
\* per-minute threshold, as long as no login succeeded.
C33_AttemptsBoundedAcrossWorkers ==
    (DOMAIN attempts = WorkerEntries)
        => MinuteCount(attempts["worker-1/198.51.100.1"], now)
             + MinuteCount(attempts["worker-2/198.51.100.1"], now) <= AttemptsPerMinute

\* C34: a call of analyze_request is answered from the cache only when the
\* entry of its key was inserted less than cache_ttl before; a call that finds
\* an expired entry is not answered from the cache, and the expired entry is
\* gone afterwards (the key is absent or holds an entry inserted by this call).
C34_CacheServesOnlyFreshEntries ==
    [][(stats'.total_requests # stats.total_requests /\ cfg.cache_enabled
          /\ ~IsPathExcluded(last'.req.path))
       => LET key == GenerateCacheKey(last'.req)
              i == CacheIndex(cache, key)
          IN  /\ last'.how = "cache" => (i # 0 /\ now - cache[i].ts < CacheTTL)
              /\ (i # 0 /\ now - cache[i].ts >= CacheTTL)
                    => /\ last'.how # "cache"
                       /\ \A j \in 1..Len(cache') :
                              cache'[j].key = key => cache'[j].ts = now]_vars

C34_Witness ==
    /\ cfg.cache_enabled
    /\ Returned(prev) /\ prev.how \in {"sync", "static_block"}
    /\ Returned(last) /\ last.how \in {"sync", "static_block"}
    /\ GenerateCacheKey(last.req) = GenerateCacheKey(prev.req)
    /\ last.time - prev.time >= CacheTTL

\* the keys the cache holds
CacheKeys(c) == {c[i].key : i \in 1..Len(c)}

\* a call of analyze_request that inserted its decision into the cache
Inserted ==
    /\ stats'.total_requests # stats.total_requests
    /\ cfg.cache_enabled
    /\ last'.outcome = "returned" /\ last'.how \in {"static_block", "sync"}

HeldByComputingRequest(c) == cache[CacheIndex(cache, GenerateCacheKey(c.req))].dec

\* C36: the decision handed to the request that computed and cached it
\* reports cache_hit = FALSE, and still does after a later request was
\* answered from the same cache entry.
C36_ComputedDecisionIsNeverAHit ==
    (/\ cfg.cache_enabled
     /\ Returned(prev) /\ prev.how \in {"sync", "static_block"}
     /\ Returned(last) /\ last.how = "cache"
     /\ GenerateCacheKey(last.req) = GenerateCacheKey(prev.req))
    => /\ ~prev.dec.cache_hit
       /\ ~HeldByComputingRequest(prev).cache_hit

\* C37: a reputation lookup that missed leaves its record in the reputation
\* cache, and a lookup of an indicator whose record was computed less than the
\* TTL before does not miss again.
C37_ReputationIsCachedForTheTtl ==
    \A e \in rep.events :
        /\ e.missed => (rep.cache[e.x] # NoRecord /\ rep.cache[e.x].data = e.data)
        /\ (rep.prior[e.x] >= 0 /\ rep.at - rep.prior[e.x] < ReputationTtl) => ~e.missed

\* C38: the result of IncidentService.analyze_request has should_block true
\* exactly when its threat_score is at least 0.5.
C38_ShouldBlockFromHalf ==
    rep.result # NoIntelResult
        => (rep.result.should_block <=> rep.result.threat_score >= 50)

====
